---- MODULE Spec2Model ----
(***************************************************************************)
(* A model of app.py: the /recommend handler, the response-text            *)
(* extraction, the tolerant JSON parser and the OMDb lookup.               *)
(*                                                                         *)
(* A text is a sequence of characters, a character a one-symbol string.    *)
(* The three typographic quotes, which are not ASCII, are the symbols      *)
(* LDQ, RDQ and RSQ.  A Python value is a pair <<t, v>>: t is its type     *)
(* and v its content, always a sequence.                                   *)
(***************************************************************************)
EXTENDS Integers, Sequences, FiniteSets, TLC

\* ------------------------------------------------------------ characters

LDQ == "LDQ"
RDQ == "RDQ"
RSQ == "RSQ"
DQ == "\""
SQ == "'"
NL == "\n"
SP == " "

DigitChars == <<"0", "1", "2", "3", "4", "5", "6", "7", "8", "9">>

IsDigit(c) == \E i \in 1..10 : DigitChars[i] = c

DigitVal(c) == (CHOOSE i \in 1..10 : DigitChars[i] = c) - 1

\* JSON's whitespace and the regular expression's \s, on the model's alphabet.
IsSpace(c) == c \in {SP, NL}

\* ---------------------------------------------------------- Python values

None == <<"NoneType", <<>>>>
Bool(b) == <<"bool", <<b>>>>
Num(n) == <<"int", <<n>>>>
Str(s) == <<"str", s>>
List(xs) == <<"list", xs>>
Dict(kvs) == <<"dict", kvs>>
\* An object that is none of the above (an SDK object, say).
Opaque == <<"object", <<>>>>

IsStr(x) == x[1] = "str"
IsList(x) == x[1] = "list"
IsDict(x) == x[1] = "dict"

\* Python's truth value of x.
Truthy(x) ==
  CASE x[1] = "NoneType" -> FALSE
    [] x[1] = "bool" -> x[2][1]
    [] x[1] = "int" -> x[2][1] # 0
    [] x[1] \in {"str", "list", "dict"} -> Len(x[2]) > 0
    [] OTHER -> TRUE

\* a or b
Or(a, b) == IF Truthy(a) THEN a ELSE b

\* k in d, for a dict d
HasKey(d, k) == \E i \in 1..Len(d[2]) : d[2][i][1] = k

\* d.get(k, default), for a dict d
Get(d, k, default) ==
  IF HasKey(d, k)
    THEN d[2][CHOOSE i \in 1..Len(d[2]) : d[2][i][1] = k][2]
    ELSE default

\* d[k] = x, for a dict d: an existing key keeps its place.
SetItem(d, k, x) ==
  IF HasKey(d, k)
    THEN LET i == CHOOSE j \in 1..Len(d[2]) : d[2][j][1] = k IN
         Dict(SubSeq(d[2], 1, i - 1) \o <<(<<k, x>>)>>
                \o SubSeq(d[2], i + 1, Len(d[2])))
    ELSE Dict(Append(d[2], <<k, x>>))

\* Whether the text sub occurs in the text s (Python's `sub in s`).
Contains(s, sub) ==
  \E i \in 0..(Len(s) - Len(sub)) :
    \A j \in 1..Len(sub) : s[i + j] = sub[j]

\* An outcome of a call: a returned value, or a raised exception whose
\* message is val.
Return(x) == [raised |-> FALSE, val |-> x]
Raise(msg) == [raised |-> TRUE, val |-> Str(msg)]

\* F(x), with x evaluated once however often F uses it.
Bind(x, F(_)) == CHOOSE y \in {F(v) : v \in {x}} : TRUE

\* ------------------------------------------------------------- json.loads

JSONDecodeError == <<"J", "S", "O", "N">>

Fail == [ok |-> FALSE, val |-> None, pos |-> 0]
Ok(x, p) == [ok |-> TRUE, val |-> x, pos |-> p]

RECURSIVE SkipWs(_, _)
SkipWs(s, i) ==
  IF i <= Len(s) /\ IsSpace(s[i]) THEN SkipWs(s, i + 1) ELSE i

\* The string whose opening quote is before position i: up to the closing
\* quote.  A control character (the newline) is refused, as in strict mode.
RECURSIVE ScanString(_, _, _)
ScanString(s, i, acc) ==
  IF i > Len(s) THEN Fail
  ELSE IF s[i] = DQ THEN Ok(Str(acc), i + 1)
  ELSE IF s[i] = NL THEN Fail
  ELSE ScanString(s, i + 1, Append(acc, s[i]))

RECURSIVE ScanDigits(_, _, _)
ScanDigits(s, i, n) ==
  IF i <= Len(s) /\ IsDigit(s[i])
    THEN ScanDigits(s, i + 1, 10 * n + DigitVal(s[i]))
    ELSE Ok(Num(n), i)

\* An integer: 0, or a non-zero digit and more digits.
ScanNumber(s, i) ==
  IF s[i] = "0" THEN Ok(Num(0), i + 1) ELSE ScanDigits(s, i, 0)

\* Whether the word w stands in s at position i.
StartsAt(s, i, w) ==
  /\ i + Len(w) - 1 <= Len(s)
  /\ \A j \in 1..Len(w) : s[i + j - 1] = w[j]

NullWord == <<"n", "u", "l", "l">>
TrueWord == <<"t", "r", "u", "e">>
FalseWord == <<"f", "a", "l", "s", "e">>

RECURSIVE ScanValue(_, _)
RECURSIVE ScanArray(_, _, _)
RECURSIVE ScanObject(_, _, _)

\* The items of an array from position i on, acc the items before.
ScanArray(s, i, acc) ==
  Bind(ScanValue(s, i), LAMBDA item :
    IF ~item.ok THEN Fail
    ELSE LET j == SkipWs(s, item.pos) IN
         Bind(Append(acc, item.val), LAMBDA items :
           IF j > Len(s) THEN Fail
           ELSE IF s[j] = "]" THEN Ok(List(items), j + 1)
           ELSE IF s[j] = "," THEN ScanArray(s, SkipWs(s, j + 1), items)
           ELSE Fail))

\* The members of an object from position i (a key's opening quote) on.
\* A key met again replaces its value.
ScanObject(s, i, acc) ==
  IF i > Len(s) \/ s[i] # DQ THEN Fail
  ELSE Bind(ScanString(s, i + 1, <<>>), LAMBDA key :
    IF ~key.ok THEN Fail
    ELSE LET c == SkipWs(s, key.pos) IN
         IF c > Len(s) \/ s[c] # ":" THEN Fail
         ELSE Bind(ScanValue(s, SkipWs(s, c + 1)), LAMBDA item :
           IF ~item.ok THEN Fail
           ELSE LET j == SkipWs(s, item.pos) IN
                Bind(SetItem(acc, key.val[2], item.val), LAMBDA d :
                  IF j > Len(s) THEN Fail
                  ELSE IF s[j] = "}" THEN Ok(d, j + 1)
                  ELSE IF s[j] = ","
                    THEN ScanObject(s, SkipWs(s, j + 1), d)
                  ELSE Fail)))

ScanValue(s, i) ==
  IF i > Len(s) THEN Fail
  ELSE IF s[i] = DQ THEN ScanString(s, i + 1, <<>>)
  ELSE IF s[i] = "{"
    THEN LET j == SkipWs(s, i + 1) IN
         IF j <= Len(s) /\ s[j] = "}" THEN Ok(Dict(<<>>), j + 1)
         ELSE ScanObject(s, j, Dict(<<>>))
  ELSE IF s[i] = "["
    THEN LET j == SkipWs(s, i + 1) IN
         IF j <= Len(s) /\ s[j] = "]" THEN Ok(List(<<>>), j + 1)
         ELSE ScanArray(s, j, <<>>)
  ELSE IF StartsAt(s, i, NullWord) THEN Ok(None, i + 4)
  ELSE IF StartsAt(s, i, TrueWord) THEN Ok(Bool(TRUE), i + 4)
  ELSE IF StartsAt(s, i, FalseWord) THEN Ok(Bool(FALSE), i + 5)
  ELSE IF IsDigit(s[i]) THEN ScanNumber(s, i)
  ELSE Fail

\* json.loads(s): one value between optional whitespace, nothing after it.
json_loads(s0) ==
  Bind(s0, LAMBDA s :
    Bind(ScanValue(s, SkipWs(s, 1)), LAMBDA r :
      IF r.ok /\ SkipWs(s, r.pos) = Len(s) + 1
        THEN Return(r.val)
        ELSE Raise(JSONDecodeError)))

\* ------------------------------------------------------- parse_json_block

RAW_TEXT == <<"r", "a", "w", "_", "t", "e", "x", "t">>

\* text.replace(LDQ, '"').replace(RDQ, '"').replace(RSQ, "'")
ReplaceQuotes(text0) ==
  LET plain(c) == CASE c \in {LDQ, RDQ} -> DQ [] c = RSQ -> SQ [] OTHER -> c
  IN Bind(text0, LAMBDA text :
       SubSeq([i \in 1..Len(text) |-> plain(text[i])], 1, Len(text)))

\* The greatest position after i that holds a "}", or 0.
LastBrace(text, i) ==
  LET after == {j \in (i + 1)..Len(text) : text[j] = "}"} IN
  IF after = {} THEN 0
  ELSE CHOOSE j \in after : \A k \in after : k <= j

\* re.search(r"\{.*\}", text, re.DOTALL): the leftmost position where the
\* pattern matches is the first "{" with a "}" after it, and there the
\* greedy .* runs to the last "}".  The match as <<first, last>>, or
\* <<0, 0>> for none.
re_search(text) ==
  LET starts == {i \in 1..Len(text) :
                   text[i] = "{" /\ LastBrace(text, i) # 0} IN
  IF starts = {} THEN <<0, 0>>
  ELSE LET i == CHOOSE k \in starts : \A l \in starts : k <= l IN
       <<i, LastBrace(text, i)>>

\* re.sub(r",\s*([}\]])", r"\1", s): of each match only the bracket stays.
\* A match is a comma, whitespace and a bracket, so matches cannot overlap.
\* Whether the character at position p is in a match, before its bracket:
InCommaMatch(s, p) ==
  /\ s[p] = "," \/ IsSpace(s[p])
  /\ \E c \in 1..p :
       /\ s[c] = ","
       /\ \A k \in (c + 1)..p : IsSpace(s[k])
  /\ \E j \in (p + 1)..Len(s) :
       /\ s[j] \in {"}", "]"}
       /\ \A k \in (p + 1)..(j - 1) : IsSpace(s[k])

re_sub(s) ==
  Bind(SelectSeq([i \in 1..Len(s) |-> i], LAMBDA p : ~InCommaMatch(s, p)),
       LAMBDA kept : SubSeq([i \in 1..Len(kept) |-> s[kept[i]]], 1, Len(kept)))

\* A variant that returns the candidate it could not decode.
FallbackCandidate(text, candidate) == Dict(<<(<<RAW_TEXT, Str(candidate)>>)>>)

\* The except clause of parse_json_block: what a failed decoding returns.
Fallback(text, candidate) == Dict(<<(<<RAW_TEXT, Str(text)>>)>>)

\* try: return json.loads(candidate) / except Exception: the fallback
TryLoads(text, candidate) ==
  Bind(json_loads(candidate), LAMBDA r :
    IF r.raised THEN Return(Fallback(text, candidate)) ELSE r)

\* candidate = match.group(0) if match else text
Candidate(text) ==
  Bind(re_search(text), LAMBDA match :
    IF match[1] # 0 THEN SubSeq(text, match[1], match[2]) ELSE text)

\* parse_json_block(text): the outcome of the call.
parse_json_block(text0) ==
  Bind(ReplaceQuotes(text0), LAMBDA text :
    Bind(Candidate(text), LAMBDA candidate :
      Bind(re_sub(candidate), LAMBDA stripped : TryLoads(text, stripped))))

\* --------------------------------------------- extract_text_from_response

TEXT == <<"t", "e", "x", "t">>
CONTENT == <<"c", "o", "n", "t", "e", "n", "t">>

\* An attribute the object does not have (hasattr is false).
Absent == <<"absent", <<>>>>

\* A response object: its output_text and output attributes (or Absent)
\* and the text str(response) renders it as.
Response(output_text, output, repr) ==
  [output_text |-> output_text, output |-> output, repr |-> repr]

\* getattr(obj, name, None), attr the attribute's value or Absent
GetAttr(attr) == IF attr = Absent THEN None ELSE attr

\* The values `for c in content` appends to parts, content a list.
RECURSIVE ContentParts(_)
ContentParts(cs) ==
  IF cs = <<>> THEN <<>>
  ELSE LET c == Head(cs) IN
       (IF IsStr(c) THEN <<c>>
        ELSE IF IsDict(c) /\ HasKey(c, TEXT) THEN <<Get(c, TEXT, None)>>
        ELSE <<>>) \o ContentParts(Tail(cs))

\* The values one block appends to parts.
BlockParts(block) ==
  IF ~IsDict(block) THEN <<>>
  ELSE LET content == Get(block, CONTENT, None) IN
       IF IsList(content) THEN ContentParts(content[2])
       ELSE IF IsStr(content) THEN <<content>>
       ELSE <<>>

\* parts after `for block in output`, output a list of blocks
RECURSIVE OutputParts(_)
OutputParts(blocks) ==
  IF blocks = <<>> THEN <<>>
  ELSE BlockParts(Head(blocks)) \o OutputParts(Tail(blocks))

RECURSIVE Concat(_)
Concat(parts) ==
  IF parts = <<>> THEN <<>> ELSE Head(parts)[2] \o Concat(Tail(parts))

TypeError == <<"T", "y", "p", "e", "E", "r", "r", "o", "r">>
AttributeError ==
  <<"A", "t", "t", "r", "i", "b", "u", "t", "e", "E", "r", "r", "o", "r">>

RECURSIVE ConcatSpaced(_)
ConcatSpaced(parts) ==
  IF Len(parts) <= 1 THEN Concat(parts)
  ELSE Head(parts)[2] \o <<SP>> \o ConcatSpaced(Tail(parts))

\* A variant that joins with a space.
JoinSpaced(parts) ==
  IF \A i \in 1..Len(parts) : IsStr(parts[i])
    THEN Return(Str(ConcatSpaced(parts)))
    ELSE Raise(TypeError)

\* "".join(parts): a part that is no str raises TypeError.
Join(parts) ==
  IF \A i \in 1..Len(parts) : IsStr(parts[i])
    THEN Return(Str(Concat(parts)))
    ELSE Raise(TypeError)

\* What `for x in v` iterates over, as an outcome: the items of a list,
\* the characters of a str, the keys of a dict; anything else raises.
RECURSIVE CharItems(_)
CharItems(s) ==
  IF s = <<>> THEN <<>> ELSE <<Str(<<Head(s)>>)>> \o CharItems(Tail(s))

RECURSIVE KeyItems(_)
KeyItems(kvs) ==
  IF kvs = <<>> THEN <<>> ELSE <<Str(Head(kvs)[1])>> \o KeyItems(Tail(kvs))

Iterate(x) ==
  CASE IsList(x) -> Return(x)
    [] IsStr(x) -> Return(List(CharItems(x[2])))
    [] IsDict(x) -> Return(List(KeyItems(x[2])))
    [] OTHER -> Raise(TypeError)

\* extract_text_from_response(response): the outcome of the call.
extract_text_from_response(response) ==
  IF response.output_text # Absent /\ Truthy(response.output_text)
    THEN Return(response.output_text)
  ELSE LET output == GetAttr(response.output) IN
       IF Truthy(output)
         THEN LET blocks == Iterate(output) IN
              IF blocks.raised THEN blocks
              ELSE Join(OutputParts(blocks.val[2]))
         ELSE Return(Str(response.repr))

\* ------------------------------------------------------------ omdb_lookup

RESPONSE == <<"R", "e", "s", "p", "o", "n", "s", "e">>
TRUE_MARK == <<"T", "r", "u", "e">>
NOT_AVAILABLE == <<"N", "/", "A">>
POSTER == <<"P", "o", "s", "t", "e", "r">>
YEAR_FIELD == <<"Y", "e", "a", "r">>
GENRE_FIELD == <<"G", "e", "n", "r", "e">>
PLOT_FIELD == <<"P", "l", "o", "t">>

\* return None, None, None, None
AllAbsent == <<None, None, None, None>>

\* The marker of a lookup that sent no request.
NoRequest == [raised |-> FALSE, val |-> Absent]

\* A variant that passes the provider's marker on.
PosterOfRaw(data) == Get(data, POSTER, None)

\* data.get("Poster") if data.get("Poster") != "N/A" else None
PosterOf(data) ==
  IF Get(data, POSTER, None) # Str(NOT_AVAILABLE)
    THEN Get(data, POSTER, None)
    ELSE None

\* The body of the try block, net being the outcome of requests.get(...)
\* followed by res.json(): the tuple returned, or the exception raised.
LookupTry(net) ==
  IF net.raised THEN net
  ELSE IF ~IsDict(net.val) THEN Raise(AttributeError)
  ELSE IF Get(net.val, RESPONSE, None) = Str(TRUE_MARK)
    THEN Return(<<PosterOf(net.val), Get(net.val, YEAR_FIELD, None),
                  Get(net.val, GENRE_FIELD, None),
                  Get(net.val, PLOT_FIELD, None)>>)
  ELSE Return(AllAbsent)

\* A variant without the except clause.
omdb_lookup_unguarded(key, net) ==
  IF ~Truthy(key) THEN Return(AllAbsent) ELSE LookupTry(net)

\* omdb_lookup(title, year) under the credential key, net the outcome of
\* the request it sends (not consulted without a credential).
omdb_lookup(key, net) ==
  IF ~Truthy(key) THEN Return(AllAbsent)
  ELSE LET r == LookupTry(net) IN
       IF r.raised THEN Return(AllAbsent) ELSE r

\* The parameters of the request: t, apikey and, for a truthy year, y.
OmdbParams(title, year) ==
  IF Truthy(year) THEN <<title, year>> ELSE <<title>>

\* -------------------------------------------------------------- recommend

MOOD == <<"m", "o", "o", "d">>
MOVIES == <<"m", "o", "v", "i", "e", "s">>
SONGS == <<"s", "o", "n", "g", "s">>
TITLE == <<"t", "i", "t", "l", "e">>
YEAR == <<"y", "e", "a", "r">>
WHY == <<"w", "h", "y">>
POSTER_URL == <<"p", "o", "s", "t", "e", "r", "_", "u", "r", "l">>
GENRE == <<"g", "e", "n", "r", "e">>
PLOT == <<"p", "l", "o", "t">>
ERROR == <<"e", "r", "r", "o", "r">>
DETAILS == <<"d", "e", "t", "a", "i", "l", "s">>
RAW == <<"r", "a", "w">>
RECOMMENDATIONS ==
  <<"r", "e", "c", "o", "m", "m", "e", "n", "d", "a", "t", "i", "o", "n", "s">>
MoodIsRequired ==
  <<"M", "o", "o", "d", SP, "i", "s", SP, "r", "e", "q", "u", "i", "r", "e", "d">>
OpenAIRequestFailed ==
  <<"O", "p", "e", "n", "A", "I", SP, "r", "e", "q", "u", "e", "s", "t", SP,
    "f", "a", "i", "l", "e", "d">>
NoMovieDataReturned ==
  <<"N", "o", SP, "m", "o", "v", "i", "e", SP, "d", "a", "t", "a", SP,
    "r", "e", "t", "u", "r", "n", "e", "d">>
PLACEHOLDER ==
  <<"/", "s", "t", "a", "t", "i", "c", "/", "p", "o", "s", "t", "e", "r", "-",
    "p", "l", "a", "c", "e", "h", "o", "l", "d", "e", "r", ".", "p", "n", "g">>

\* A result of the handler: jsonify(body), status.
Result(status, body) == [status |-> status, body |-> body]
NoResult == Result(0, None)

\* An exception that leaves the handler (raised outside its try block).
Unhandled == Result(500, Opaque)

\* A variant that tests `mood is None`.
MoodMissingNoneOnly(mood) == mood = None

\* if not mood
MoodMissing(mood) == ~Truthy(mood)

\* return jsonify({"error": "Mood is required"}), 400
BadRequest == Result(400, Dict(<<(<<ERROR, Str(MoodIsRequired)>>)>>))

\* A variant that leaves the failure's message out.
ServerErrorNoDetails(e) ==
  Result(500, Dict(<<(<<ERROR, Str(OpenAIRequestFailed)>>)>>))

\* return jsonify({"error": "OpenAI request failed", "details": str(e)}), 500
ServerError(e) ==
  Result(500, Dict(<<(<<ERROR, Str(OpenAIRequestFailed)>>), (<<DETAILS, e>>)>>))

\* return jsonify({"error": "No movie data returned", "raw": text})
SoftFail(text) ==
  Result(200, Dict(<<(<<ERROR, Str(NoMovieDataReturned)>>), (<<RAW, text>>)>>))

\* return jsonify({"recommendations": parsed})
Success(parsed) == Result(200, Dict(<<(<<RECOMMENDATIONS, parsed>>)>>))

\* `k in x`, k a str: a key of a dict, an item of a list, a substring of a
\* str; TypeError for a value that is no container.
In(k, x) ==
  CASE IsDict(x) -> Return(Bool(HasKey(x, k)))
    [] IsList(x) -> Return(Bool(\E i \in 1..Len(x[2]) : x[2][i] = Str(k)))
    [] IsStr(x) -> Return(Bool(Contains(x[2], k)))
    [] OTHER -> Raise(TypeError)

\* x[k], k a str present in x: the value of a dict; TypeError for a list
\* or a str, which take integer indices.
Subscript(x, k) ==
  IF IsDict(x) THEN Return(Get(x, k, None)) ELSE Raise(TypeError)

\* The dict appended to enriched for the suggestion m (a dict) and the
\* tuple ret that omdb_lookup returned.
EnrichedMovie(m, ret) ==
  Dict(<<(<<TITLE, Get(m, TITLE, None)>>),
         (<<YEAR, Or(ret[2], Get(m, YEAR, None))>>),
         (<<WHY, Get(m, WHY, Str(<<>>))>>),
         (<<POSTER_URL, Or(ret[1], Str(PLACEHOLDER))>>),
         (<<GENRE, ret[3]>>),
         (<<PLOT, ret[4]>>)>>)

\* A variant that inserts at the front.
PrependEnriched(list, movie) == <<movie>> \o list

\* enriched.append({...})
AppendEnriched(list, movie) == Append(list, movie)

\* What follows a returned generation call up to the enrichment loop:
\* extract the text, parse it, test for 'movies', start the iteration.
\* [text, parsed, items, result]: result is NoResult when the loop starts.
AfterCall(response) ==
  LET stop(text, parsed, result) ==
        [text |-> text, parsed |-> parsed, items |-> <<>>, result |-> result]
  IN
  Bind(extract_text_from_response(response), LAMBDA ex :
  IF ex.raised THEN stop(None, None, ServerError(ex.val))
  ELSE IF ~IsStr(ex.val)
    THEN stop(ex.val, None, ServerError(Str(AttributeError)))
  ELSE Bind(parse_json_block(ex.val[2]), LAMBDA pr :
  IF pr.raised THEN stop(ex.val, None, ServerError(pr.val))
  ELSE Bind(In(MOVIES, pr.val), LAMBDA has :
  IF has.raised THEN stop(ex.val, pr.val, ServerError(has.val))
  ELSE IF ~has.val[2][1] THEN stop(ex.val, pr.val, SoftFail(ex.val))
  ELSE Bind(Subscript(pr.val, MOVIES), LAMBDA movies :
  IF movies.raised THEN stop(ex.val, pr.val, ServerError(movies.val))
  ELSE Bind(Iterate(movies.val), LAMBDA it :
  IF it.raised THEN stop(ex.val, pr.val, ServerError(it.val))
  ELSE [text |-> ex.val, parsed |-> pr.val, items |-> it.val[2],
        result |-> NoResult])))))

\* ------------------------------------------------------------------ state

VARIABLES
  pc,            \* where the request is: idle, call, enrich, done
  OMDB_API_KEY,  \* the metadata credential read at startup, or None
  body,          \* request.get_json()
  mood,
  response,      \* the outcome of client.responses.create
  text,
  decoded,       \* what parse_json_block returned
  parsed,        \* the same dict, as the handler changes it
  items,         \* what `for m in parsed["movies"]` iterates over
  idx,           \* the position of the loop in items
  enriched,
  genCalls,      \* the generation-API calls made
  lookups,       \* the omdb_lookup calls made, with what each returned
  requests,      \* the metadata requests sent
  result,        \* what the handler returned
  pin, pout,     \* parse_json_block applied to a text
  ein, eout      \* extract_text_from_response applied to a response

reqVars ==
  <<pc, OMDB_API_KEY, body, mood, response, text, decoded, parsed, items,
    idx, enriched, genCalls, lookups, requests, result>>
parseVars == <<pin, pout>>
extractVars == <<ein, eout>>
vars == <<reqVars, parseVars, extractVars>>

\* A call not made yet.
Pending == [raised |-> FALSE, val |-> Absent]

\* ----------------------------------------------------------------- bounds

MaxMovies == 2
MaxItems == 2
MaxLen == 4
MaxBlocks == 2
MaxElems == 1

SeqsUpTo(S, n) == UNION {[1..k -> S] : k \in 0..n}

\* ----------------------------------------------------------------- inputs

RECURSIVE Digits(_)
Digits(n) ==
  IF n < 10 THEN <<DigitChars[n + 1]>>
  ELSE Digits(n \div 10) \o <<DigitChars[(n % 10) + 1]>>

\* The JSON text of a value.  With smart, strings stand in typographic
\* quotes; with trailing, a comma follows the last item of a container.
RECURSIVE Render(_, _, _)
RECURSIVE RenderItems(_, _, _)
RECURSIVE RenderMembers(_, _, _)
RenderItems(xs, smart, trailing) ==
  IF xs = <<>> THEN <<>>
  ELSE Render(Head(xs), smart, trailing)
         \o (IF Len(xs) > 1 \/ trailing THEN <<",">> ELSE <<>>)
         \o RenderItems(Tail(xs), smart, trailing)
RenderMembers(kvs, smart, trailing) ==
  IF kvs = <<>> THEN <<>>
  ELSE Render(Str(Head(kvs)[1]), smart, trailing) \o <<":">>
         \o Render(Head(kvs)[2], smart, trailing)
         \o (IF Len(kvs) > 1 \/ trailing THEN <<",">> ELSE <<>>)
         \o RenderMembers(Tail(kvs), smart, trailing)
Render(x, smart, trailing) ==
  CASE x[1] = "NoneType" -> NullWord
    [] x[1] = "bool" -> IF x[2][1] THEN TrueWord ELSE FalseWord
    [] x[1] = "int" -> Digits(x[2][1])
    [] x[1] = "str" ->
         IF smart THEN <<LDQ>> \o x[2] \o <<RDQ>> ELSE <<DQ>> \o x[2] \o <<DQ>>
    [] x[1] = "list" -> <<"[">> \o RenderItems(x[2], smart, trailing) \o <<"]">>
    [] x[1] = "dict" -> <<"{">> \o RenderMembers(x[2], smart, trailing) \o <<"}">>

Dump(x) == Render(x, FALSE, FALSE)

\* The texts parse_json_block is applied to: every text of at most MaxLen
\* characters over ShortAlphabet, and the renderings of JSON objects,
\* plain, with typographic quotes, with trailing commas, inside prose, or
\* cut off.
ShortAlphabet == {"{", "}", "[", "]", ",", DQ, "1", SP}

Atoms == {Num(1), Str(<<",", "}">>), Str(<<",", SP, "]">>)}

Keys == {<<"a">>, <<"b">>}

Values == Atoms \cup {List(xs) : xs \in SeqsUpTo(Atoms, MaxItems)}

Objects ==
  {Dict(kvs) : kvs \in
     {m \in SeqsUpTo(Keys \X Values, MaxItems) :
        \A i, j \in 1..Len(m) : i # j => m[i][1] # m[j][1]}}

Prose == <<"S", "u", "r", "e", ":", NL>>

\* A reply cut off before its last character.
Truncated(t) == SubSeq(t, 1, Len(t) - 1)

ParseInputs ==
  SeqsUpTo(ShortAlphabet, MaxLen)
    \cup {Dump(o) : o \in Objects}
    \cup {Render(o, TRUE, FALSE) : o \in Objects}
    \cup {Render(o, FALSE, TRUE) : o \in Objects}
    \cup {Prose \o Render(o, FALSE, TRUE) \o <<".">> : o \in Objects}
    \cup {Truncated(Render(o, TRUE, FALSE)) : o \in Objects}

\* The responses extract_text_from_response is applied to.
TextA == <<"a">>
TextB == <<"b">>
TextC == <<"c">>
Repr == <<"<", "R", ">">>

Elems ==
  {Str(TextB), Dict(<<(<<TEXT, Str(TextA)>>)>>), Dict(<<(<<TEXT, None>>)>>),
   Dict(<<>>), Num(1)}

Blocks ==
  {Opaque, Dict(<<>>), Dict(<<(<<CONTENT, Str(TextC)>>)>>),
   Dict(<<(<<CONTENT, Num(1)>>)>>)}
    \cup {Dict(<<(<<CONTENT, List(cs)>>)>>) : cs \in SeqsUpTo(Elems, MaxElems)}

ExtractInputs ==
  {Response(ot, out, Repr) :
     ot \in {Absent, None, Str(<<>>), Str(TextA)},
     out \in {Absent, None} \cup {List(bs) : bs \in SeqsUpTo(Blocks, MaxBlocks)}}

\* --------------------------------------------- the pure-function machines

InitRequestIdle ==
  /\ pc = "idle"
  /\ OMDB_API_KEY = None
  /\ body = None
  /\ mood = None
  /\ response = Pending
  /\ text = None
  /\ decoded = None
  /\ parsed = None
  /\ items = <<>>
  /\ idx = 0
  /\ enriched = <<>>
  /\ genCalls = 0
  /\ lookups = <<>>
  /\ requests = <<>>
  /\ result = NoResult

InitParse ==
  /\ InitRequestIdle
  /\ pin \in ParseInputs
  /\ pout = Pending
  /\ ein = Response(Absent, Absent, Repr)
  /\ eout = Pending

\* parsed = parse_json_block(text)
ParseCall ==
  /\ pout = Pending
  /\ pout' = parse_json_block(pin)
  /\ UNCHANGED <<pin, reqVars, extractVars>>

NextParse == ParseCall

SpecParse == InitParse /\ [][NextParse]_vars

InitExtract ==
  /\ InitRequestIdle
  /\ ein \in ExtractInputs
  /\ eout = Pending
  /\ pin = <<>>
  /\ pout = Pending

\* text = extract_text_from_response(response)
ExtractCall ==
  /\ eout = Pending
  /\ eout' = extract_text_from_response(ein)
  /\ UNCHANGED <<ein, reqVars, parseVars>>

NextExtract == ExtractCall

SpecExtract == InitExtract /\ [][NextExtract]_vars

\* ------------------------------------------------- the request's inputs

Sad == <<"s", "a", "d">>

\* What request.get_json() gives: None for no body, or the decoded body.
Bodies ==
  {None, Dict(<<>>), Dict(<<(<<MOOD, None>>)>>), Dict(<<(<<MOOD, Str(<<>>)>>)>>),
   Dict(<<(<<MOOD, Str(Sad)>>)>>), List(<<Num(1)>>)}

\* The messages of the exceptions client.responses.create raises.
GenErrors == {<<"q", "u", "o", "t", "a">>, <<"a", "u", "t", "h">>}

Url == <<"h", "t", "t", "p", ":", "/", "/", "p", "/", "a", ".", "j", "p", "g">>

\* The items a model's reply puts in its movies list.
MovieItems ==
  {Dict(<<(<<TITLE, Str(TextA)>>), (<<YEAR, Str(<<"1">>)>>), (<<WHY, Str(TextC)>>)>>),
   Dict(<<(<<TITLE, Str(TextB)>>)>>),
   Num(5)}

Song == Dict(<<(<<TITLE, Str(TextC)>>)>>)

Replies ==
  {Dict(<<(<<MOVIES, List(ms)>>), (<<SONGS, List(<<Song>>)>>)>>) :
     ms \in SeqsUpTo(MovieItems, MaxMovies)}

\* Replies that are no object with a list of movies.
OddReplies ==
  {Num(42), None, Str(MOVIES), Str(TextA), List(<<Str(MOVIES)>>),
   List(<<Num(1)>>), Dict(<<(<<SONGS, List(<<Song>>)>>)>>),
   Dict(<<(<<MOVIES, Num(5)>>)>>), Dict(<<(<<MOVIES, None>>)>>),
   Dict(<<(<<MOVIES, Str(<<>>)>>)>>), Dict(<<(<<MOVIES, Str(TextA)>>)>>),
   Dict(<<(<<MOVIES, Dict(<<>>)>>)>>)}

NoJsonHere == <<"n", "o", SP, "j", "s", "o", "n", SP, "h", "e", "r", "e">>

ModelTexts ==
  {Dump(r) : r \in Replies \cup OddReplies}
    \cup {Prose \o Render(r, TRUE, TRUE) : r \in Replies}
    \cup {NoJsonHere, <<>>}

\* The objects client.responses.create returns: the text in the direct
\* field, or in a content block, or nowhere.
Responses ==
  {Response(Str(t), List(<<Opaque>>), Repr) : t \in ModelTexts}
    \cup {Response(Absent, List(<<Dict(<<(<<CONTENT, Str(t)>>)>>)>>), Repr) :
            t \in {Dump(r) : r \in Replies}}
    \cup {Response(Absent, Absent, Repr),
          Response(Absent, List(<<Dict(<<(<<CONTENT,
                     List(<<Dict(<<(<<TEXT, None>>)>>)>>)>>)>>)>>), Repr)}

ConnectionError == <<"C", "o", "n", "n", "e", "c", "t", "i", "o", "n">>
Timeout == <<"T", "i", "m", "e", "o", "u", "t">>
FALSE_MARK == <<"F", "a", "l", "s", "e">>

Posters == {Absent, Str(NOT_AVAILABLE), Str(<<>>), Str(Url)}

\* A provider payload reporting success.
Found(poster, full) ==
  Dict(<<(<<RESPONSE, Str(TRUE_MARK)>>)>>
       \o (IF poster = Absent THEN <<>> ELSE <<(<<POSTER, poster>>)>>)
       \o (IF full
             THEN <<(<<YEAR_FIELD, Str(<<"2">>)>>), (<<GENRE_FIELD, Str(TextA)>>),
                    (<<PLOT_FIELD, Str(TextB)>>)>>
             ELSE <<>>))

\* The outcomes of a metadata request that give no metadata: a network
\* error, a timeout, a body that is no JSON, a JSON body that is no
\* object, and the provider's "Response": "False".
FailedLookups ==
  {Raise(ConnectionError), Raise(Timeout), Raise(JSONDecodeError),
   Return(List(<<>>)),
   Return(Dict(<<(<<RESPONSE, Str(FALSE_MARK)>>), (<<POSTER, Str(Url)>>)>>))}

NetOutcomes ==
  FailedLookups \cup {Return(Found(p, f)) : p \in Posters, f \in BOOLEAN}

\* ------------------------------------------------------------ the handler

Init ==
  /\ pc = "idle"
  /\ OMDB_API_KEY \in {None, Str(<<"k">>)}
  /\ body = None
  /\ mood = None
  /\ response = Pending
  /\ text = None
  /\ decoded = None
  /\ parsed = None
  /\ items = <<>>
  /\ idx = 0
  /\ enriched = <<>>
  /\ genCalls = 0
  /\ lookups = <<>>
  /\ requests = <<>>
  /\ result = NoResult
  /\ pin = <<>>
  /\ pout = Pending
  /\ ein = Response(Absent, Absent, Repr)
  /\ eout = Pending

pureVars == <<parseVars, extractVars>>

\* data = request.get_json() or {}; mood = data.get("mood"); if not mood
Receive(b) ==
  /\ pc = "idle"
  /\ body' = b
  /\ LET data == Or(b, Dict(<<>>)) IN
     IF ~IsDict(data)
       THEN /\ result' = Unhandled
            /\ pc' = "done"
            /\ mood' = mood
     ELSE IF MoodMissing(Get(data, MOOD, None))
       THEN /\ result' = BadRequest
            /\ pc' = "done"
            /\ mood' = Get(data, MOOD, None)
     ELSE /\ result' = result
          /\ pc' = "call"
          /\ mood' = Get(data, MOOD, None)
  /\ UNCHANGED <<OMDB_API_KEY, response, text, decoded, parsed, items, idx,
                 enriched, genCalls, lookups, requests, pureVars>>

\* client.responses.create raises e: the except clause answers.
CallFails(e) ==
  /\ pc = "call"
  /\ genCalls' = genCalls + 1
  /\ response' = Raise(e)
  /\ result' = ServerError(Str(e))
  /\ pc' = "done"
  /\ UNCHANGED <<OMDB_API_KEY, body, mood, text, decoded, parsed, items, idx,
                 enriched, lookups, requests, pureVars>>

\* client.responses.create returns r: the handler runs up to its loop.
CallReturns(r) ==
  /\ pc = "call"
  /\ genCalls' = genCalls + 1
  /\ response' = Return(r)
  /\ \E a \in {AfterCall(r)} :
     /\ text' = a.text
     /\ decoded' = a.parsed
     /\ parsed' = a.parsed
     /\ items' = a.items
     /\ result' = a.result
     /\ IF a.result = NoResult
          THEN pc' = "enrich" /\ idx' = 1
          ELSE pc' = "done" /\ idx' = idx
  /\ UNCHANGED <<OMDB_API_KEY, body, mood, enriched, lookups, requests,
                 pureVars>>

\* One turn of `for m in parsed["movies"]`, net the outcome of the
\* request omdb_lookup sends when it has a credential.
EnrichNext(net) ==
  /\ pc = "enrich"
  /\ idx <= Len(items)
  /\ Truthy(OMDB_API_KEY) <=> net # NoRequest
  /\ LET m == items[idx] IN
     IF ~IsDict(m)
       THEN /\ result' = ServerError(Str(AttributeError))
            /\ pc' = "done"
            /\ UNCHANGED <<idx, enriched, lookups, requests>>
     ELSE LET title == Get(m, TITLE, None)
              year == Get(m, YEAR, None)
              r == omdb_lookup(OMDB_API_KEY, net)
              call == [title |-> title, year |-> year, net |-> net, ret |-> r]
          IN
          /\ lookups' = Append(lookups, call)
          /\ requests' = IF Truthy(OMDB_API_KEY)
                           THEN Append(requests, OmdbParams(title, year))
                           ELSE requests
          /\ IF r.raised
               THEN /\ result' = ServerError(r.val)
                    /\ pc' = "done"
                    /\ UNCHANGED <<idx, enriched>>
               ELSE /\ enriched' = AppendEnriched(enriched, EnrichedMovie(m, r.val))
                    /\ idx' = idx + 1
                    /\ UNCHANGED <<result, pc>>
  /\ UNCHANGED <<OMDB_API_KEY, body, mood, response, text, decoded, parsed,
                 items, genCalls, pureVars>>

\* parsed["movies"] = enriched; return jsonify({"recommendations": parsed})
Finish ==
  /\ pc = "enrich"
  /\ idx > Len(items)
  /\ parsed' = SetItem(parsed, MOVIES, List(enriched))
  /\ result' = Success(parsed')
  /\ pc' = "done"
  /\ UNCHANGED <<OMDB_API_KEY, body, mood, response, text, decoded, items, idx,
                 enriched, genCalls, lookups, requests, pureVars>>

Next ==
  \/ \E b \in Bodies : Receive(b)
  \/ \E e \in GenErrors : CallFails(e)
  \/ \E r \in Responses : CallReturns(r)
  \/ \E net \in NetOutcomes \cup {NoRequest} : EnrichNext(net)
  \/ Finish

Spec == Init /\ [][Next]_vars

\* ---------------------------------------------------------------- claims

Finished == pc = "done"

\* The body of a result, and a field of it (Absent when it has none).
Field(d, k) == IF IsDict(d) THEN Get(d, k, Absent) ELSE Absent

\* The request names no mood: no body, or a body without the key, or
\* with a null or empty mood.
MoodAbsent ==
  \/ body = None
  \/ /\ IsDict(body)
     /\ ~HasKey(body, MOOD) \/ Get(body, MOOD, None) \in {None, Str(<<>>)}

\* C1: a request whose mood is absent or empty (no body, no key, null or
\* the empty string) is answered 400 {"error": "Mood is required"}, and no
\* generation call and no metadata lookup is made for it.
C1_MissingMoodRejected ==
  (pc # "idle" /\ MoodAbsent) =>
    /\ Finished
    /\ result = Result(400, Dict(<<(<<ERROR, Str(MoodIsRequired)>>)>>))
    /\ genCalls = 0
    /\ lookups = <<>>
    /\ requests = <<>>

C1_Witness ==
  /\ Finished
  /\ body = Dict(<<(<<MOOD, Str(<<>>)>>)>>)
  /\ result.status = 400

\* C2: when the generation call raises, the answer is 500 {"error":
\* "OpenAI request failed", "details": <the message>}; the call was made
\* once, no metadata lookup was made, and the answer holds no
\* recommendations.
C2_GenerationFailure ==
  response.raised =>
    /\ Finished
    /\ result = Result(500, Dict(<<(<<ERROR, Str(OpenAIRequestFailed)>>),
                                   (<<DETAILS, response.val>>)>>))
    /\ genCalls = 1
    /\ lookups = <<>>
    /\ requests = <<>>
    /\ Field(result.body, RECOMMENDATIONS) = Absent

C2_Witness ==
  /\ Finished
  /\ response.raised
  /\ Field(result.body, DETAILS) = Str(<<"q", "u", "o", "t", "a">>)

\* The text was extracted and what parse_json_block made of it has no
\* 'movies' field.
NoMoviesField ==
  /\ ~response.raised
  /\ IsStr(text)
  /\ ~(IsDict(decoded) /\ HasKey(decoded, MOVIES))

\* C3: when the generation call succeeds and the parsed value has no
\* 'movies' field (the raw-text fallback, an object without the key, or
\* any other JSON value), the answer is 200 {"error": "No movie data
\* returned", "raw": <the extracted text>} and no lookup is made.
C3_SoftFailure ==
  (Finished /\ NoMoviesField) =>
    /\ result = Result(200, Dict(<<(<<ERROR, Str(NoMovieDataReturned)>>),
                                   (<<RAW, text>>)>>))
    /\ lookups = <<>>
    /\ requests = <<>>

\* The handler returned the recommendations.
Succeeded ==
  Finished /\ result.status = 200 /\ Field(result.body, RECOMMENDATIONS) # Absent

Recommended == Field(result.body, RECOMMENDATIONS)

RecommendedMovies == Field(Recommended, MOVIES)[2]

\* C4: on the success path one lookup is made per movie suggestion, one
\* at a time and in suggestion order; the movies returned are as many and
\* in the same order as the parsed ones, the i-th built from the i-th
\* suggestion and the i-th lookup alone; the songs, and every other key
\* of the parsed structure, are returned as parsed.
C4_OneLookupPerMovieInOrder ==
  /\ pc = "enrich" => Len(lookups) = idx - 1 /\ Len(enriched) = idx - 1
  /\ \A i \in 1..Len(lookups) :
       /\ i <= Len(items)
       /\ IsDict(items[i])
       /\ lookups[i].title = Get(items[i], TITLE, None)
       /\ lookups[i].year = Get(items[i], YEAR, None)
  /\ IF Truthy(OMDB_API_KEY)
       THEN /\ Len(requests) = Len(lookups)
            /\ \A i \in 1..Len(requests) : requests[i][1] = lookups[i].title
       ELSE requests = <<>>
  /\ Succeeded =>
       /\ Len(lookups) = Len(items)
       /\ items = Iterate(Get(decoded, MOVIES, None)).val[2]
       /\ Len(RecommendedMovies) = Len(items)
       /\ \A i \in 1..Len(items) :
            LET m == RecommendedMovies[i]
                ret == lookups[i].ret.val
            IN /\ Field(m, TITLE) = Get(items[i], TITLE, None)
               /\ Field(m, WHY) = Get(items[i], WHY, Str(<<>>))
               /\ Field(m, YEAR) = Or(ret[2], Get(items[i], YEAR, None))
               /\ Field(m, POSTER_URL) = Or(ret[1], Str(PLACEHOLDER))
               /\ Field(m, GENRE) = ret[3]
               /\ Field(m, PLOT) = ret[4]
       /\ Len(Recommended[2]) = Len(decoded[2])
       /\ \A j \in 1..Len(decoded[2]) :
            /\ Recommended[2][j][1] = decoded[2][j][1]
            /\ decoded[2][j][1] # MOVIES =>
                 Recommended[2][j][2] = decoded[2][j][2]

C4_Witness ==
  /\ Succeeded
  /\ Truthy(OMDB_API_KEY)
  /\ Len(items) = 2
  /\ Get(items[1], TITLE, None) # Get(items[2], TITLE, None)
  /\ Field(RecommendedMovies[2], TITLE) = Str(TextB)
  /\ Field(Recommended, SONGS) = List(<<Song>>)

\* The i-th lookup gave no metadata: no credential, or a failed request.
LookupFailed(i) ==
  ~Truthy(OMDB_API_KEY) \/ lookups[i].net \in FailedLookups

\* Every item of the parsed movies is a movie suggestion, a keyed structure.
AllSuggestions ==
  /\ ~response.raised
  /\ IsStr(text)
  /\ IsDict(decoded)
  /\ IsList(Get(decoded, MOVIES, None))
  /\ \A i \in 1..Len(Get(decoded, MOVIES, None)[2]) :
       IsDict(Get(decoded, MOVIES, None)[2][i])

\* C5: a lookup that fails (no credential, network error, timeout,
\* non-success response, malformed payload) returns four absent fields
\* and raises nothing; its movie is still in the answer, with the
\* placeholder poster, its own year and no genre and plot; the other
\* movies are enriched as their own lookups say; the answer is 200.
C5_EnrichmentFailureSwallowed ==
  /\ \A i \in 1..Len(lookups) :
       LookupFailed(i) =>
         /\ lookups[i].ret = Return(<<None, None, None, None>>)
         /\ i <= Len(enriched)
         /\ Field(enriched[i], TITLE) = Get(items[i], TITLE, None)
         /\ Field(enriched[i], POSTER_URL) = Str(PLACEHOLDER)
         /\ Field(enriched[i], YEAR) = Get(items[i], YEAR, None)
         /\ Field(enriched[i], GENRE) = None
         /\ Field(enriched[i], PLOT) = None
  /\ \A j \in 1..Len(enriched) :
       enriched[j] =
         EnrichedMovie(items[j], omdb_lookup(OMDB_API_KEY, lookups[j].net).val)
  /\ (Finished /\ AllSuggestions) =>
       /\ Succeeded
       /\ RecommendedMovies = enriched
       /\ Len(enriched) = Len(items)

C5_Witness ==
  /\ Succeeded
  /\ Len(lookups) = 2
  /\ lookups[1].net = Raise(Timeout)
  /\ lookups[2].net = Return(Found(Str(Url), TRUE))
  /\ Field(RecommendedMovies[1], POSTER_URL) = Str(PLACEHOLDER)
  /\ Field(RecommendedMovies[2], POSTER_URL) = Str(Url)

\* The poster the provider reported for the i-th lookup, or Absent.
ProviderPoster(i) ==
  LET net == lookups[i].net IN
  IF /\ Truthy(OMDB_API_KEY)
     /\ ~net.raised
     /\ IsDict(net.val)
     /\ Field(net.val, RESPONSE) = Str(TRUE_MARK)
    THEN Field(net.val, POSTER)
    ELSE Absent

\* C9: in a success result every movie has a non-empty poster_url: the
\* provider's poster URL when the lookup returned one, else the
\* placeholder path (also for the provider's "N/A" and an empty poster).
C9_PosterNeverEmpty ==
  Succeeded =>
    \A i \in 1..Len(RecommendedMovies) :
      LET url == Field(RecommendedMovies[i], POSTER_URL) IN
      /\ IsStr(url)
      /\ Len(url[2]) > 0
      /\ url = IF ProviderPoster(i) \in {Absent, Str(NOT_AVAILABLE), Str(<<>>)}
                 THEN Str(PLACEHOLDER)
                 ELSE ProviderPoster(i)

C9_Witness ==
  /\ Succeeded
  /\ Len(RecommendedMovies) = 2
  /\ ProviderPoster(1) = Str(NOT_AVAILABLE)
  /\ ProviderPoster(2) = Str(Url)
  /\ Field(RecommendedMovies[1], POSTER_URL) = Str(PLACEHOLDER)
  /\ Field(RecommendedMovies[2], POSTER_URL) = Str(Url)

\* C6: extract_text_from_response returns a text and raises nothing,
\* whatever the shape of the response.
C6_ExtractNeverRaises ==
  eout # Pending => ~eout.raised /\ IsStr(eout.val)

\* The response has a non-empty direct text field.
DirectText == IsStr(ein.output_text) /\ Len(ein.output_text[2]) > 0

\* The response exposes an output sequence whose fragments are all text.
TextFragments ==
  /\ IsList(ein.output)
  /\ \A i \in 1..Len(OutputParts(ein.output[2])) :
       IsStr(OutputParts(ein.output[2])[i])

\* C8, as claimed: a non-empty direct text field is the result, unchanged;
\* otherwise, when the response exposes an output sequence, the result is
\* the concatenation of its text fragments in encounter order.
C8_AsClaimed ==
  eout # Pending =>
    /\ DirectText => eout = Return(ein.output_text)
    /\ (~DirectText /\ TextFragments) =>
         eout = Return(Str(Concat(OutputParts(ein.output[2]))))

\* C8, amended: ... otherwise, when the response exposes a non-empty
\* output sequence whose fragments are all text, the result is their
\* concatenation in encounter order, with no separator.
C8_PriorityAndConcatenation ==
  eout # Pending =>
    /\ DirectText => eout = Return(ein.output_text)
    /\ (~DirectText /\ TextFragments /\ Len(ein.output[2]) > 0) =>
         eout = Return(Str(Concat(OutputParts(ein.output[2]))))

C8_Witness ==
  /\ eout = Return(Str(<<"a", "b">>))
  /\ ~DirectText
  /\ ein.output =
       List(<<Dict(<<(<<CONTENT, List(<<Dict(<<(<<TEXT, Str(TextA)>>)>>)>>)>>)>>),
              Dict(<<(<<CONTENT, List(<<Str(TextB)>>)>>)>>)>>)

\* The span from the first "{" to the last "}" of the text, or the whole
\* text when there is no such span.
FirstToLastBrace(t) ==
  LET opens == {i \in 1..Len(t) : t[i] = "{"}
      closes == {i \in 1..Len(t) : t[i] = "}"}
      first == CHOOSE i \in opens : \A k \in opens : i <= k
      last == CHOOSE i \in closes : \A k \in closes : k <= i
  IN IF opens # {} /\ closes # {} /\ first < last
       THEN SubSeq(t, first, last)
       ELSE t

\* C7: parse_json_block raises nothing and returns the strict decoding of
\* the comma-stripped candidate (the span from the first "{" to the last
\* "}" of the quote-normalized text, or all of it), or, when that decoding
\* fails, exactly {raw_text: <the whole quote-normalized text>}.
C7_DecodedOrFallback ==
  pout # Pending =>
    /\ ~pout.raised
    /\ \E norm \in {ReplaceQuotes(pin)} :
         \E dec \in {json_loads(re_sub(FirstToLastBrace(norm)))} :
           IF dec.raised
             THEN pout.val = Dict(<<(<<RAW_TEXT, Str(norm)>>)>>)
             ELSE pout.val = dec.val

C7_Witness ==
  /\ pout # Pending
  /\ Field(pout.val, RAW_TEXT) = Str(ReplaceQuotes(pin))
  /\ ReplaceQuotes(pin) # pin
  /\ FirstToLastBrace(ReplaceQuotes(pin)) # ReplaceQuotes(pin)

\* The text is a strictly valid JSON object without typographic quotes.
ValidObject(t) ==
  /\ \A i \in 1..Len(t) : t[i] \notin {LDQ, RDQ, RSQ}
  /\ ~json_loads(t).raised
  /\ IsDict(json_loads(t).val)

\* C10: for a text that is already a strictly valid JSON object,
\* parse_json_block returns what strict decoding of that text returns,
\* also when a string value holds a comma, optional whitespace and a
\* closing bracket.
C10_ValidInputUnchanged ==
  (pout # Pending /\ ValidObject(pin)) => pout = json_loads(pin)

====
